---- MODULE Spec2Model ----
(***************************************************************************)
(* doko: the procedural macros doko! and doko_skip_mods! (src/src/lib.rs). *)
(*                                                                         *)
(* Strings, OsStrings and identifiers are sequences of byte values, so     *)
(* that extension splitting, truncation, hyphen replacement, UTF-8         *)
(* decoding and sorting are computed and not assumed.  A token stream is a *)
(* sequence of items.  The directory that is scanned is a set of entries;  *)
(* read_dir hands them out in an arbitrary order, one per ScanEntry step.  *)
(***************************************************************************)
EXTENDS Integers, Sequences, FiniteSets, TLC

VARIABLES
    dir,        \* the entries of the directory the path resolves to
                \* (under CARGO_MANIFEST_DIR when that is set)
    readable,   \* whether fs::read_dir(dir) succeeds
    args,       \* DokoArgs: path, method, signature
    pc,         \* "idle", "scan" (inside the for loop), "done"
    mode,       \* include_mods of the running / last invocation
    enclosing,  \* enclosing_modules of the running invocation
    remaining,  \* entries read_dir has not yielded yet
    names,      \* source_file_names: names
    failures,   \* source_file_names: failures
    enum,       \* what source_file_names returned ("None": not returned)
    out,        \* what the macro invocation expanded to
    prev,       \* mode and expansion of the invocation before this one
    reordered,  \* history: names.sort() changed the order of names
    call        \* last call of the generated doko_<method>

vars == <<dir, readable, args, pc, mode, enclosing, remaining, names,
          failures, enum, out, prev, reordered, call>>

---------------------------------------------------------------------------
(* Bytes and literals *)

Hyphen     == 45
Underscore == 95
Dot        == 46
Slash      == 47

RsExt   == <<114, 115>>                       \* "rs"
DotRs   == <<Dot>> \o RsExt                   \* ".rs"
ModRs   == <<109, 111, 100>> \o DotRs         \* "mod.rs"
LibRs   == <<108, 105, 98>> \o DotRs          \* "lib.rs"
MainRs  == <<109, 97, 105, 110>> \o DotRs     \* "main.rs"
Crate   == <<99, 114, 97, 116, 101>>          \* crate
DokoPfx == <<100, 111, 107, 111, 95>>         \* "doko_"

---------------------------------------------------------------------------
(* Library functions the code calls, computed on byte sequences *)

\* Ord for String / OsString (unix): lexicographic on bytes, strict
LexLess(s, t) ==
    \E k \in 0..Len(s) :
        /\ k <= Len(t)
        /\ \A i \in 1..k : s[i] = t[i]
        /\ \/ k = Len(s) /\ k < Len(t)
           \/ k < Len(s) /\ k < Len(t) /\ s[k + 1] < t[k + 1]

RECURSIVE Insert(_, _)
Insert(x, s) ==
    IF s = <<>> THEN <<x>>
    ELSE IF LexLess(x, Head(s)) THEN <<x>> \o s
    ELSE <<Head(s)>> \o Insert(x, Tail(s))

\* slice::sort, stable, ascending
RECURSIVE SortVec(_)
SortVec(v) == IF v = <<>> THEN <<>> ELSE Insert(Head(v), SortVec(Tail(v)))

Contains(s, b) == \E i \in 1..Len(s) : s[i] = b

\* str::replace of one byte by one byte
Replace(s, from, to) == [i \in 1..Len(s) |-> IF s[i] = from THEN to ELSE s[i]]

\* OsString::into_string succeeds: the alphabet has ASCII bytes and the
\* bytes 254 and 255, which no UTF-8 text contains
IsUtf8(s) == \A i \in 1..Len(s) : s[i] < 128

\* OsStr::to_string_lossy: an undecodable byte becomes U+FFFD
Lossy(s) == [i \in 1..Len(s) |-> IF s[i] < 128 THEN s[i] ELSE 65533]

\* Path::extension of a single component, an Option as <<>> or <<ext>>
LastDot(s) ==
    IF Contains(s, Dot)
    THEN CHOOSE i \in 1..Len(s) :
            s[i] = Dot /\ \A j \in (i + 1)..Len(s) : s[j] # Dot
    ELSE 0

Extension(file) ==
    IF file = <<Dot, Dot>> \/ LastDot(file) <= 1 THEN <<>>
    ELSE <<SubSeq(file, LastDot(file) + 1, Len(file))>>

IsAlpha(b) == (b >= 65 /\ b <= 90) \/ (b >= 97 /\ b <= 122)
IsDigit(b) == b >= 48 /\ b <= 57

\* Ident::new returns (it panics on anything that is no identifier)
IsValidIdent(s) ==
    /\ s # <<>>
    /\ IsAlpha(s[1]) \/ s[1] = Underscore
    /\ \A i \in 2..Len(s) : IsAlpha(s[i]) \/ IsDigit(s[i]) \/ s[i] = Underscore

RECURSIVE Split(_, _)
Split(s, cur) ==
    IF s = <<>> THEN <<cur>>
    ELSE IF Head(s) = Slash THEN <<cur>> \o Split(Tail(s), <<>>)
    ELSE Split(Tail(s), Append(cur, Head(s)))

RECURSIVE KeepParts(_, _, _)
KeepParts(raw, i, hasRoot) ==
    IF i > Len(raw) THEN <<>>
    ELSE IF raw[i] = <<>> \/ (raw[i] = <<Dot>> /\ (i > 1 \/ hasRoot))
         THEN KeepParts(raw, i + 1, hasRoot)
         ELSE <<raw[i]>> \o KeepParts(raw, i + 1, hasRoot)

\* Path::components (unix): a leading "/" is a component, empty parts and
\* "." other than a leading one are dropped
Components(p) ==
    LET hasRoot == p # <<>> /\ p[1] = Slash
    IN  (IF hasRoot THEN <<<<Slash>>>> ELSE <<>>)
            \o KeepParts(Split(p, <<>>), 1, hasRoot)

---------------------------------------------------------------------------
(* error.rs *)

ErrIO        == [type |-> "IO", name |-> <<>>]
ErrUtf8(n)   == [type |-> "Utf8", name |-> n]
ErrEmpty     == [type |-> "Empty", name |-> <<>>]
NoErr        == [type |-> "None", name |-> <<>>]

Display(err) ==
    CASE err.type = "IO"    -> [text |-> "io error", arg |-> <<>>]
      [] err.type = "Utf8"  -> [text |-> "unsupported non-UTF-8 file name: ",
                                arg |-> Lossy(err.name)]
      [] err.type = "Empty" -> [text |-> "no source files found", arg |-> <<>>]

Ok(v)     == [kind |-> "Ok", val |-> v, err |-> NoErr, what |-> <<>>]
Err(e)    == [kind |-> "Err", val |-> <<>>, err |-> e, what |-> <<>>]
Panic(w)  == [kind |-> "Panic", val |-> <<>>, err |-> NoErr, what |-> w]
NotRun    == [kind |-> "None", val |-> <<>>, err |-> NoErr, what |-> <<>>]

---------------------------------------------------------------------------
(* Token streams: a stream is a sequence of items *)

\* `pub mod <ident>;`, with `#[path = <p>]` before it when p is not empty
ModDecl(ident, p) ==
    [kind |-> "mod", ident |-> ident, path |-> p, inline |-> FALSE,
     body |-> <<>>, sig |-> "", arms |-> <<>>]

\* `pub mod <ident> { <stream> }`
ModScope(ident, stream) ==
    [kind |-> "mod", ident |-> ident, path |-> <<>>, inline |-> TRUE,
     body |-> stream, sig |-> "", arms |-> <<>>]

\* `pub fn <ident>(module_name: &str) -> fn<sig> { match module_name {
\*      <arms>  unknown => panic!("unknown module: {}", unknown), } }`
FnItem(ident, sig, arms) ==
    [kind |-> "fn", ident |-> ident, path |-> <<>>, inline |-> FALSE,
     body |-> <<>>, sig |-> sig, arms |-> arms]

---------------------------------------------------------------------------
(* lib.rs, the generation functions *)

get_enclosing_modules(directory) ==
    LET comps    == Components(directory)
        sections == IF comps = <<>> THEN <<>> ELSE Tail(comps)   \* skip(1)
        bad      == {i \in 1..Len(sections) :
                        ~IsUtf8(sections[i]) \/ ~IsValidIdent(sections[i])}
    IN  IF bad = {} THEN Ok(sections)
        ELSE LET i == CHOOSE j \in bad : \A k \in bad : j <= k
             IN  IF ~IsUtf8(sections[i]) THEN Err(ErrUtf8(sections[i]))
                 ELSE Panic(sections[i])

data_for_submodule(name) ==
    IF Contains(name, Hyphen)
    THEN LET path  == name \o DotRs
             name2 == Replace(name, Hyphen, Underscore)
             ident == Replace(name2, Hyphen, Underscore)
         IN  [ident |-> ident, name |-> name2,
              include |-> <<ModDecl(ident, path)>>]
    ELSE [ident |-> name, name |-> name, include |-> <<ModDecl(name, <<>>)>>]

\* the map of data_for_submodule over the names; Ident::new panics on the
\* first name whose identifier is none
get_submodule_data(names_result) ==
    IF names_result.kind # "Ok" THEN names_result
    ELSE LET ns   == names_result.val
             data == [i \in 1..Len(ns) |-> data_for_submodule(ns[i])]
             bad  == {i \in 1..Len(ns) : ~IsValidIdent(data[i].ident)}
         IN  IF bad = {} THEN Ok(data)
             ELSE Panic(data[CHOOSE j \in bad : \A k \in bad : j <= k].ident)

RECURSIVE Concat(_)
Concat(streams) ==
    IF streams = <<>> THEN <<>> ELSE Head(streams) \o Concat(Tail(streams))

\* a slip: the fold without rev()
RECURSIVE FoldFwd(_, _)
FoldFwd(modules, stream) ==
    IF modules = <<>> THEN stream
    ELSE FoldFwd(Tail(modules), <<ModScope(Head(modules), stream)>>)

\* enclosing_modules.iter().rev().fold(inner_modules, ...)
RECURSIVE FoldRev(_, _)
FoldRev(modules, stream) ==
    IF modules = <<>> THEN stream
    ELSE FoldRev(SubSeq(modules, 1, Len(modules) - 1),
                 <<ModScope(modules[Len(modules)], stream)>>)

build_module_includes(submodules, enclosing_modules) ==
    FoldRev(enclosing_modules,
            Concat([i \in 1..Len(submodules) |-> submodules[i].include]))

\* enclosing_modules.iter().fold(quote!{ crate }, |ident, next| ident::next)
RECURSIVE FoldPrefix(_, _)
FoldPrefix(ident, modules) ==
    IF modules = <<>> THEN ident
    ELSE FoldPrefix(Append(ident, Head(modules)), Tail(modules))

get_call_for_submodule(submod, prefix, method) ==
    [key |-> submod.name, target |-> prefix \o <<submod.ident, method>>]

build_registry(submodules, enclosing_modules, method, signature) ==
    LET gen_method_name == DokoPfx \o method
        prefix == FoldPrefix(<<Crate>>, enclosing_modules)
        calls  == [i \in 1..Len(submodules) |->
                      get_call_for_submodule(submodules[i], prefix, method)]
    IN  FnItem(gen_method_name, signature, calls)

\* a slip: include_mods is not looked at
tokens_for_input_always_mods(input, include_mods, enclosing_modules, names_result) ==
    LET sub == get_submodule_data(names_result)
    IN  IF sub.kind # "Ok" THEN sub
        ELSE Ok(build_module_includes(sub.val, enclosing_modules)
                    \o <<build_registry(sub.val, enclosing_modules,
                                        input.method, input.signature)>>)

\* tokens_for_input after get_enclosing_modules returned Ok
tokens_for_input(input, include_mods, enclosing_modules, names_result) ==
    LET sub == get_submodule_data(names_result)
    IN  IF sub.kind # "Ok" THEN sub
        ELSE LET outer_mod == build_module_includes(sub.val, enclosing_modules)
                 registry  == build_registry(sub.val, enclosing_modules,
                                             input.method, input.signature)
             IN  IF include_mods THEN Ok(outer_mod \o <<registry>>)
                 ELSE Ok(<<registry>>)

\* doko / doko_skip_mods: the tokens, or the error as a compile error
NoMsg == [text |-> "", arg |-> <<>>]
NoOut == [status |-> "none", tokens |-> <<>>, msg |-> NoMsg, what |-> <<>>]

Expand(result) ==
    CASE result.kind = "Ok"    -> [NoOut EXCEPT !.status = "tokens",
                                                !.tokens = result.val]
      [] result.kind = "Err"   -> [NoOut EXCEPT !.status = "compile_error",
                                                !.msg = Display(result.err)]
      [] result.kind = "Panic" -> [NoOut EXCEPT !.status = "panic",
                                                !.what = result.what]

\* a slip: main.rs is not skipped
IsReservedNoMain(file_name) == file_name = ModRs \/ file_name = LibRs

\* source_file_names, the test on one directory entry (lines 263-283)
IsReserved(file_name) ==
    file_name = ModRs \/ file_name = LibRs \/ file_name = MainRs

IsSource(file_name) == Extension(file_name) = <<RsExt>>

Truncate(utf8) == SubSeq(utf8, 1, Len(utf8) - Len(DotRs))

\* a slip: the failures are left in the order read_dir gave them
failures_unsorted(fs) == fs

failures_sorted(fs) == SortVec(fs)

\* a slip: the names are left in the order read_dir gave them
names_unsorted(ns) == ns

names_sorted(ns) == SortVec(ns)

\* a slip: the empty check comes before the failures
source_file_names_empty_first(ns, fs) ==
    IF ns = <<>> THEN Err(ErrEmpty)
    ELSE IF failures_sorted(fs) # <<>>
    THEN Err(ErrUtf8(Head(failures_sorted(fs))))
    ELSE Ok(names_sorted(ns))

\* source_file_names after the loop (lines 286-296)
source_file_names_result(ns, fs) ==
    IF failures_sorted(fs) # <<>> THEN Err(ErrUtf8(Head(failures_sorted(fs))))
    ELSE IF ns = <<>> THEN Err(ErrEmpty)
    ELSE Ok(names_sorted(ns))

---------------------------------------------------------------------------
(* The generated function, called at run time *)

NoCall == [kind |-> "none", arg |-> <<>>, target |-> <<>>]

\* match module_name { <arms in order>, unknown => panic!(...) }
Dispatch(registry, module_name) ==
    LET hits == {i \in 1..Len(registry.arms) :
                    registry.arms[i].key = module_name}
    IN  IF hits = {}
        THEN [kind |-> "panic", arg |-> module_name, target |-> <<>>]
        ELSE [kind |-> "fn", arg |-> module_name,
              target |-> registry.arms[CHOOSE i \in hits :
                                          \A j \in hits : i <= j].target]

Registry(tokens) == tokens[Len(tokens)]

---------------------------------------------------------------------------
(* Inputs *)

MaxEntries == 3

File(n)    == [name |-> n, kind |-> "file", io |-> FALSE]
SubDir(n)  == [name |-> n, kind |-> "dir", io |-> FALSE]
Broken(n)  == [name |-> n, kind |-> "file", io |-> TRUE]

EntryPool ==
    { File(<<97>> \o DotRs),              \* a.rs
      File(<<98>> \o DotRs),              \* b.rs
      File(<<99>> \o DotRs),              \* c.rs
      File(<<97, Hyphen, 98>> \o DotRs),      \* a-b.rs
      File(<<97, Underscore, 98>> \o DotRs),  \* a_b.rs
      File(<<49, 97>> \o DotRs),          \* 1a.rs
      File(ModRs), File(LibRs), File(MainRs),
      File(DotRs),                        \* .rs
      File(<<255, Dot, 116>>),            \* \xFF.t
      File(<<255>> \o DotRs),             \* \xFF.rs
      File(<<254>> \o DotRs),             \* \xFE.rs
      SubDir(<<100>> \o DotRs),           \* d.rs, a directory
      Broken(<<101>> \o DotRs) }          \* e.rs, entry or file type unreadable

PathPool ==
    { <<114, 111, 111, 116, Slash, 97, Slash, 98>>,   \* "root/a/b"
      <<115, 114, 99, Slash>>,                        \* "src/"
      <<114, Slash, 97, Hyphen, 98>> }                \* "r/a-b"

MethodPool == { <<114, 117, 110>> }                   \* "run"
SignaturePool == { "() -> u32" }

CallPool ==
    { <<97>>, <<99>>, <<97, Hyphen, 98>>, <<97, Underscore, 98>>,
      <<122>>, <<>> }                     \* "a" "c" "a-b" "a_b" "z" ""

---------------------------------------------------------------------------
(* The state machine *)

NoPrev == [mode |-> FALSE, out |-> NoOut, reordered |-> FALSE]

Init ==
    /\ dir \in {d \in SUBSET EntryPool : Cardinality(d) <= MaxEntries}
    /\ readable \in BOOLEAN
    /\ args \in [path : PathPool, method : MethodPool,
                 signature : SignaturePool]
    /\ pc = "idle"
    /\ mode = FALSE
    /\ enclosing = <<>>
    /\ remaining = {}
    /\ names = <<>>
    /\ failures = <<>>
    /\ enum = NotRun
    /\ out = NoOut
    /\ prev = NoPrev
    /\ reordered = FALSE
    /\ call = NoCall

\* doko! (include_mods) or doko_skip_mods! starts: tokens_for_input up to
\* the first read_dir entry (lines 79-101, 154-160, 257-261)
Invoke(include_mods) ==
    /\ pc \in {"idle", "done"}
    /\ prev' = IF pc = "done" THEN [mode |-> mode, out |-> out, reordered |-> reordered] ELSE prev
    /\ mode' = include_mods
    /\ call' = NoCall
    /\ reordered' = FALSE
    /\ names' = <<>>
    /\ failures' = <<>>
    /\ LET enc == get_enclosing_modules(args.path)
       IN  IF enc.kind # "Ok"
           THEN /\ pc' = "done"
                /\ out' = Expand(enc)
                /\ enum' = NotRun
                /\ enclosing' = <<>>
                /\ remaining' = {}
           ELSE IF ~readable
           THEN /\ pc' = "done"
                /\ out' = Expand(Err(ErrIO))
                /\ enum' = Err(ErrIO)
                /\ enclosing' = enc.val
                /\ remaining' = {}
           ELSE /\ pc' = "scan"
                /\ out' = NoOut
                /\ enum' = NotRun
                /\ enclosing' = enc.val
                /\ remaining' = dir
    /\ UNCHANGED <<dir, readable, args>>

\* one iteration of `for entry in fs::read_dir(dir)?` (lines 261-284)
ScanEntry(entry) ==
    /\ pc = "scan"
    /\ entry \in remaining
    /\ remaining' = remaining \ {entry}
    /\ IF entry.io
       THEN /\ pc' = "done"
            /\ enum' = Err(ErrIO)
            /\ out' = Expand(Err(ErrIO))
            /\ UNCHANGED <<names, failures>>
       ELSE /\ UNCHANGED <<pc, enum, out>>
            /\ IF entry.kind # "file" \/ IsReserved(entry.name)
                  \/ ~IsSource(entry.name)
               THEN UNCHANGED <<names, failures>>
               ELSE IF IsUtf8(entry.name)
               THEN /\ names' = Append(names, Truncate(entry.name))
                    /\ UNCHANGED failures
               ELSE /\ failures' = Append(failures, entry.name)
                    /\ UNCHANGED names
    /\ UNCHANGED <<dir, readable, args, mode, enclosing, prev, reordered, call>>

\* read_dir is exhausted: the rest of source_file_names and of
\* tokens_for_input (lines 286-296, 160-163, 103-121)
Finish ==
    /\ pc = "scan"
    /\ remaining = {}
    /\ LET res == source_file_names_result(names, failures)
       IN  /\ enum' = res
           /\ out' = Expand(tokens_for_input(args, mode, enclosing, res))
    /\ failures' = failures_sorted(failures)
    /\ names' = IF failures = <<>> THEN names_sorted(names) ELSE names
    /\ reordered' = (failures = <<>> /\ names_sorted(names) # names)
    /\ pc' = "done"
    /\ UNCHANGED <<dir, readable, args, mode, enclosing, remaining, prev, call>>

\* the program calls the generated doko_<method>(module_name)
Call(module_name) ==
    /\ pc = "done"
    /\ out.status = "tokens"
    /\ call' = Dispatch(Registry(out.tokens), module_name)
    /\ UNCHANGED <<dir, readable, args, pc, mode, enclosing, remaining,
                   names, failures, enum, out, prev, reordered>>

Next ==
    \/ \E include_mods \in BOOLEAN : Invoke(include_mods)
    \/ \E entry \in EntryPool : ScanEntry(entry)
    \/ Finish
    \/ \E module_name \in CallPool : Call(module_name)

Spec == Init /\ [][Next]_vars

---------------------------------------------------------------------------
(* What the claims speak of *)

Done      == pc = "done"
Generated == Done /\ out.status = "tokens"
Arms      == Registry(out.tokens).arms

\* regular files with extension rs that are not mod.rs, lib.rs or main.rs
Sources ==
    {e \in dir : /\ e.kind = "file"
                 /\ e.name \notin {ModRs, LibRs, MainRs}
                 /\ Extension(e.name) = <<RsExt>>}

Stem(e) == SubSeq(e.name, 1, Len(e.name) - 3)
RawStems == {Stem(e) : e \in Sources}
Undecodable == {e.name : e \in {x \in Sources : ~IsUtf8(x.name)}}
Smallest(S) == CHOOSE m \in S : \A x \in S : x = m \/ LexLess(m, x)
NoIoError == readable /\ \A e \in dir : ~e.io

\* the scopes of a stream of inclusions, outermost first
RECURSIVE Scopes(_)
Scopes(stream) ==
    IF Len(stream) = 1 /\ stream[1].inline
    THEN <<stream[1].ident>> \o Scopes(stream[1].body)
    ELSE <<>>

RECURSIVE Innermost(_)
Innermost(stream) ==
    IF Len(stream) = 1 /\ stream[1].inline THEN Innermost(stream[1].body)
    ELSE stream

Front(stream) == SubSeq(stream, 1, Len(stream) - 1)

RootAB == <<114, 111, 111, 116, Slash, 97, Slash, 98>>
FileA  == File(<<97>> \o DotRs)
FileB  == File(<<98>> \o DotRs)
FileC  == File(<<99>> \o DotRs)

---------------------------------------------------------------------------
(* The claims *)

\* C1: every eligible file has a branch whose key is the raw stem of the
\* file (hyphens kept) and which yields the method of the file's submodule,
\* whose identifier has the hyphens replaced.
C1_KeyIsRawStem ==
    Generated =>
        \A e \in Sources :
            \E i \in 1..Len(Arms) :
                /\ Arms[i].key = Stem(e)
                /\ Arms[i].target =
                      <<Crate>> \o enclosing
                        \o <<Replace(Stem(e), Hyphen, Underscore), args.method>>

\* C2: when generation succeeds the keys of the dispatch table are pairwise
\* distinct and none is empty.
C2_KeysDistinctNonEmpty ==
    Generated =>
        /\ \A i, j \in 1..Len(Arms) : i # j => Arms[i].key # Arms[j].key
        /\ \A i \in 1..Len(Arms) : Arms[i].key # <<>>

\* C3 as stated: once a name failed to decode, every entry is still visited
\* and the enumeration fails with the non-text-name error carrying the
\* smallest failing name.
C3_DecodeFailureAlwaysReported ==
    (Done /\ failures # <<>>) =>
        /\ remaining = {}
        /\ enum = Err(ErrUtf8(Smallest(Undecodable)))

\* C3 as amended: a name that fails to decode never ends the scan; unless an
\* I/O error on an entry ends it (and is then the error returned), every
\* entry is visited and the enumeration fails with the non-text-name error
\* carrying the smallest failing name, whatever the order of the entries.
C3_DecodeFailureReportedUnlessIo ==
    (Done /\ failures # <<>>) =>
          \/ /\ enum = Err(ErrIO)
             /\ \E e \in dir \ remaining : e.io
          \/ /\ remaining = {}
             /\ \A e \in dir : ~e.io
             /\ enum = Err(ErrUtf8(Smallest(Undecodable)))
             /\ out.status = "compile_error"

C3_Witness ==
    /\ Done
    /\ Len(failures) = 2
    /\ Cardinality(dir) = 3
    /\ remaining = {}
    /\ enum = Err(ErrUtf8(<<254>> \o DotRs))

\* C4: two invocations with the same parameters on the same directory give
\* the same expansion, whatever order read_dir gave the entries in.
C4_SameExpansion ==
    (Done /\ prev.out.status # "none" /\ prev.mode = mode) => out = prev.out

C4_Witness ==
    /\ Generated
    /\ prev.mode = mode
    /\ prev.reordered # reordered
    /\ Len(Arms) >= 2
    /\ out = prev.out

\* C5: a successful enumeration returns the stems of the source files that
\* are not reserved, each once, in ascending order.
C5_SortedExactStems ==
    enum.kind = "Ok" =>
        /\ \A i, j \in 1..Len(enum.val) :
              i < j => LexLess(enum.val[i], enum.val[j])
        /\ {enum.val[i] : i \in 1..Len(enum.val)} = RawStems
        /\ Len(enum.val) = Cardinality(Sources)

C5_Witness ==
    /\ dir = {FileA, FileB, File(ModRs)}
    /\ enum = Ok(<<<<97>>, <<98>>>>)

\* C6: a readable directory with no source file other than reserved ones
\* fails with the empty-result error, and that error is returned only when
\* no name failed to decode.
C6_EmptyResult ==
    /\ (Done /\ NoIoError /\ enum.kind # "None" /\ Sources = {}) =>
          /\ enum = Err(ErrEmpty)
          /\ out.msg.text = "no source files found"
    /\ enum = Err(ErrEmpty) => (Undecodable = {} /\ failures = <<>>)
    /\ (Done /\ NoIoError /\ enum.kind # "None" /\ Undecodable # {}) =>
          enum.err.type = "Utf8"

C6_Witness ==
    /\ dir = {File(ModRs), File(<<255, Dot, 116>>), SubDir(<<100>> \o DotRs)}
    /\ Done
    /\ enum = Err(ErrEmpty)
    /\ out.status = "compile_error"

\* C7: the inclusions are nested outermost scope first, in the order of the
\* path segments after the first, and every branch names the same scopes in
\* the same order (after the crate root), then the submodule, then the
\* method; for root/a/b with c.rs: a { b { mod c } } and a::b::c::run.
C7_ScopeOrder ==
    (Generated /\ mode) =>
        /\ Scopes(Front(out.tokens)) = Tail(Components(args.path))
        /\ \A i \in 1..Len(Arms) :
              /\ Front(Front(Arms[i].target))
                    = <<Crate>> \o Scopes(Front(out.tokens))
              /\ Innermost(Front(out.tokens))[i].ident
                    = Arms[i].target[Len(Arms[i].target) - 1]
              /\ Arms[i].target[Len(Arms[i].target)] = args.method
        /\ (args.path = RootAB /\ dir = {FileC}) =>
              /\ Scopes(Front(out.tokens)) = <<<<97>>, <<98>>>>
              /\ Innermost(Front(out.tokens)) = <<ModDecl(<<99>>, <<>>)>>
              /\ Tail(Arms[1].target) = <<<<97>>, <<98>>, <<99>>, args.method>>

C7_Witness ==
    /\ Generated
    /\ mode
    /\ args.path = RootAB
    /\ dir = {FileC}
    /\ Len(Arms) = 1

\* C8: doko_skip_mods expands to the dispatcher alone, the one doko expands
\* to for the same parameters and directory, and doko expands to the
\* inclusions followed by that dispatcher.
C8_SkipModsIsDispatcherOnly ==
    Generated =>
        /\ Registry(out.tokens).kind = "fn"
        /\ \A i \in 1..(Len(out.tokens) - 1) : out.tokens[i].kind = "mod"
        /\ ~mode => Len(out.tokens) = 1
        /\ mode => Len(out.tokens) >= 2
        /\ (prev.out.status = "tokens" /\ prev.mode /\ ~mode) =>
              /\ out.tokens = <<Registry(prev.out.tokens)>>
              /\ prev.out.tokens = Front(prev.out.tokens) \o out.tokens

C8_Witness ==
    /\ Generated
    /\ ~mode
    /\ prev.mode
    /\ prev.out.status = "tokens"
    /\ Len(Arms) >= 2

\* C9: a call with a string that is not the raw stem of an enumerated file
\* aborts with that string and returns no callable.
C9_UnknownNameAborts ==
    (call.kind # "none" /\ call.arg \notin RawStems) => call.kind = "panic"

\* C10: for every enumerated stem the identifier is a valid one, so building
\* the entries never aborts.
C10_EntryNeverAborts ==
    (Done /\ enum.kind = "Ok") =>
        /\ out.status = "tokens"
        /\ \A i \in 1..Len(enum.val) :
              IsValidIdent(data_for_submodule(enum.val[i]).ident)

====
